---- MODULE Spec2Model ----
(***************************************************************************)
(* Model of specialsoss/locate_trace.py: the column signal isolator        *)
(* (isolate_signal), the order mask builder with its on-disk cache and     *)
(* thread pool (order_masks) and the wavelength-bin indexer                *)
(* (wavelength_bins).                                                      *)
(*                                                                         *)
(* Real-valued row positions, widths and separations are kept as integers  *)
(* in units of 1/Scale pixel; wavelengths in units of 1/WScale micron.     *)
(* scipy's curve_fit is external: it is modelled as a deterministic        *)
(* function of the column's data (its "profile"), the fitted function and  *)
(* the bounds, returning a point inside the bounds or raising.             *)
(***************************************************************************)
EXTENDS Integers, Sequences, FiniteSets, TLC

VARIABLES iso, wb, frame, file, stack, pool, ret, prev, hist

vars == <<iso, wb, frame, file, stack, pool, ret, prev, hist>>

(***************************************************************************)
(* Units and sampled index sets                                            *)
(***************************************************************************)
Scale == 4

NoneVal == "None"

\* bounds=None and radius=None of isolate_signal
NoBounds == <<>>

NoRadius == [type |-> "none", val |-> 0]

\* the heights of the frames handed to the model (SUBSTRIP96, SUBSTRIP256)
Heights == {96, 256}

\* column indices of range(2048) the model follows: both sides of the two
\* order-2 cutoffs and the two ends of the detector
IsoCols == {0, 1049, 1050, 1899, 1900, 2047}

(***************************************************************************)
(* trace_polynomial                                                        *)
(***************************************************************************)
\* np.polyval(coeffs[order-1], idx), rounded to 1/Scale pixel
trace_polynomial(order) ==
  IF order = 1
  THEN [idx \in IsoCols |->
          CASE idx = 0    -> 332
            [] idx = 1049 -> 174
            [] idx = 1050 -> 173
            [] idx = 1899 -> 216
            [] idx = 1900 -> 216
            [] idx = 2047 -> 285]
  ELSE [idx \in IsoCols |->
          CASE idx = 0    -> 399
            [] idx = 1049 -> 405
            [] idx = 1050 -> 406
            [] idx = 1899 -> 950
            [] idx = 1900 -> 951
            [] idx = 2047 -> 1125]

(***************************************************************************)
(* isolate_signal                                                          *)
(***************************************************************************)
\* str.lower() on the filter names in use
Lower(s) ==
  CASE s = "CLEAR" -> "clear"
    [] s = "F277W" -> "f277w"
    [] OTHER       -> s

\* order2end = 1900 if col.size == 256 else 1050
Order2End(size) == IF size = 256 THEN 1900 ELSE 1050

\* idx >= order2end or filt.lower() == 'f277w'
SingleOrderNoFilt(idx, size, filt) == idx >= Order2End(size)
SingleOrder(idx, size, filt) ==
  idx >= Order2End(size) \/ Lower(filt) = "f277w"

\* bounds of the batman fit: ([x1-3, 2, 100, 2, 300, 5], [x1+3, 4, 1e6, 8, 1e6, 10])
BatmanBounds(x1) ==
  << <<x1 - 3*Scale, 2*Scale, 100, 2*Scale, 300, 5*Scale>>,
     <<x1 + 3*Scale, 4*Scale, 1000000, 8*Scale, 1000000, 10*Scale>> >>

\* bounds of the batmen fit: the order-2 block first, then the order-1 block
BatmenBounds(x1, x2) ==
  << <<x2 - 3*Scale, 2*Scale, 3, 2*Scale, 3, 5*Scale,
       x1 - 3*Scale, 2*Scale, 100, 2*Scale, 300, 5*Scale>>,
     <<x2 + 3*Scale, 4*Scale, 1000, 8*Scale, 1000, 10*Scale,
       x1 + 3*Scale, 4*Scale, 1000000, 8*Scale, 1000000, 10*Scale>> >>

\* the bounds handed to curve_fit: both branches assign `bounds`
FitBounds(callerBounds, single, x1, x2) ==
  IF single THEN BatmanBounds(x1) ELSE BatmenBounds(x1, x2)

\* column profiles: where the optimum of the fit lies for the column's data
Profiles == {"low", "mid", "high", "bad", "baddual"}

\* curve_fit(func, x, col, bounds=bounds, sigma=err): a point inside the
\* bounds decided by the data, or an exception
curve_fit(func, prof, bounds) ==
  LET lo == bounds[1]
      hi == bounds[2]
  IN  IF prof = "bad" \/ (prof = "baddual" /\ func = "batmen")
      THEN [raised |-> TRUE, params |-> <<>>]
      ELSE [raised |-> FALSE,
            params |->
              [i \in 1..Len(lo) |->
                 CASE prof = "low"  -> lo[i]
                   [] prof = "high" -> hi[i]
                   [] OTHER         -> (lo[i] + hi[i]) \div 2]]

\* if len(params) == 12: params = np.concatenate([params[6:], params[:6]])
SwitchOrdersNone(params) == params
SwitchOrders(params) ==
  IF Len(params) = 12
  THEN SubSeq(params, 7, 12) \o SubSeq(params, 1, 6)
  ELSE params

\* the three gaussians (mu, sigma, A) of one 6-parameter block
Gaussians(b) ==
  << <<b[1], b[2], b[3]>>,
     <<b[1] - b[6], b[4], b[5]>>,
     <<b[1] + b[6], b[4], b[5]>> >>

\* sorted(..., key=lambda x: x[0]) on three entries (stable)
RECURSIVE InsertByMu(_, _)
InsertByMu(s, g) ==
  IF s = <<>> THEN <<g>>
  ELSE IF g[1] < s[Len(s)][1]
       THEN InsertByMu(SubSeq(s, 1, Len(s) - 1), g) \o <<s[Len(s)]>>
       ELSE s \o <<g>>

SortedByMu(gs) ==
  InsertByMu(InsertByMu(InsertByMu(<<>>, gs[1]), gs[2]), gs[3])

\* isinstance(radius, int)
IsInt(radius) == radius.type = "int"

\* (llim, ulim) of one order from its parameter block
Limits(b, sigma, radius) ==
  LET p == SortedByMu(Gaussians(b))
  IN  IF IsInt(radius)
      THEN <<p[2][1] - radius.val, p[2][1] + radius.val>>
      ELSE <<p[1][1] - p[1][2] * sigma, p[3][1] + p[3][2] * sigma>>

\* ord = np.ones_like(col); ord[(x > llim) & (x < ulim)] = 0
Unmask(size, lim) ==
  [x \in 0..(size - 1) |->
     IF x * Scale > lim[1] /\ x * Scale < lim[2] THEN 0 ELSE 1]

\* np.ones_like(col)
OnesLike(size) == [x \in 0..(size - 1) |-> 1]

\* an exception of curve_fit leaves isolate_signal: nothing is returned
OnFitErrorExcluded(func, fb, size) ==
  [raised |-> FALSE, func |-> func, fitBounds |-> fb, fitted |-> <<>>,
   ord1 |-> OnesLike(size), ord2 |-> OnesLike(size)]
OnFitError(func, fb, size) ==
  [raised |-> TRUE, func |-> func, fitBounds |-> fb, fitted |-> <<>>,
   ord1 |-> <<>>, ord2 |-> <<>>]

\* isolate_signal(idx, frame, bounds, sigma, err, radius, filt)
isolate_signal(idx, frm, bounds, sigma, radius, filt) ==
  LET size   == frm.h
      x1     == trace_polynomial(1)[idx]
      x2     == trace_polynomial(2)[idx]
      single == SingleOrder(idx, size, filt)
      func   == IF single THEN "batman" ELSE "batmen"
      fb     == FitBounds(bounds, single, x1, x2)
      fit    == curve_fit(func, frm.prof[idx], fb)
      params == SwitchOrders(fit.params)
  IN  IF fit.raised
      THEN OnFitError(func, fb, size)
      ELSE [raised |-> FALSE, func |-> func, fitBounds |-> fb,
            fitted |-> fit.params,
            ord1 |-> Unmask(size, Limits(SubSeq(params, 1, 6), sigma, radius)),
            ord2 |-> IF func = "batmen"
                     THEN Unmask(size, Limits(SubSeq(params, 7, 12), sigma, radius))
                     ELSE OnesLike(size)]

(***************************************************************************)
(* Specification of isolate_signal as a function of its arguments          *)
(***************************************************************************)
\* sigma multipliers and radii handed to isolate_signal
MaxSigma == 3

Sigmas == {1, MaxSigma}

IntRadius(r) == [type |-> "int", val |-> r * Scale]

\* a float radius, given in units of 1/Scale pixel
FloatRadius(v) == [type |-> "float", val |-> v]

Radii == {NoRadius, IntRadius(0), IntRadius(2), FloatRadius(10)}

Filters == {"CLEAR", "F277W", "f277w"}

\* bounds a caller may pass: a (lower, upper) pair for 6 or for 12 parameters
CallerBounds6 ==
  << <<200, 8, 100, 8, 300, 20>>,
     <<300, 12, 1000, 16, 1000, 24>> >>

CallerBounds12 ==
  << <<380, 8, 3, 8, 3, 20, 200, 8, 100, 8, 300, 20>>,
     <<420, 12, 100, 16, 100, 24, 300, 12, 1000, 16, 1000, 24>> >>

CallerBounds == {NoBounds, CallerBounds6, CallerBounds12}

\* a frame of height h whose columns all have profile p
UniformFrame(h, p) == [h |-> h, prof |-> [c \in IsoCols |-> p]]

Idle == [pc |-> "idle"]

IsoInputs ==
  [idx : IsoCols, h : Heights, prof : Profiles, bounds : CallerBounds,
   sigma : Sigmas, radius : Radii, filt : Filters]

IsoInit ==
  /\ iso \in [pc : {"in"}, in : IsoInputs, out : {NoneVal}]
  /\ wb = Idle
  /\ frame = Idle
  /\ file = Idle
  /\ stack = <<>>
  /\ pool = Idle
  /\ ret = Idle
  /\ prev = Idle
  /\ hist = Idle

IsoCall ==
  /\ iso.pc = "in"
  /\ iso' = [iso EXCEPT
               !.pc = "out",
               !.out = isolate_signal(iso.in.idx,
                                      UniformFrame(iso.in.h, iso.in.prof),
                                      iso.in.bounds, iso.in.sigma,
                                      iso.in.radius, iso.in.filt)]
  /\ UNCHANGED <<wb, frame, file, stack, pool, ret, prev, hist>>

IsoNext == IsoCall

SpecIso == IsoInit /\ [][IsoNext]_vars

IsoDone == iso.pc = "out" /\ iso.out.fitted # <<>>

(***************************************************************************)
(* Properties of isolate_signal                                            *)
(***************************************************************************)
AllOnes(m) == \A x \in DOMAIN m : m[x] = 1

\* C5: whenever the fit succeeds, the order-2 column mask is 1 at every row
\* if the column index is at or beyond the order-2 cutoff (1900 for a column
\* of height 256, 1050 for any other height) or the filter is 'F277W'.
C5_Order2Excluded ==
  (IsoDone /\ (\/ iso.in.idx >= (IF iso.in.h = 256 THEN 1900 ELSE 1050)
               \/ iso.in.filt = "F277W"))
    => (DOMAIN iso.out.ord2 = 0..(iso.in.h - 1) /\ AllOnes(iso.out.ord2))

\* a CLEAR column at the cutoff and an F277W column before it, both fitted,
\* with signal rows in the order-1 mask
C5_Witness ==
  /\ IsoDone
  /\ \/ iso.in.filt = "CLEAR" /\ iso.in.idx = 1900 /\ iso.in.h = 256
     \/ iso.in.filt = "F277W" /\ iso.in.idx = 0
  /\ ~AllOnes(iso.out.ord1)

\* C6: when the caller passes bounds, the fit is run with exactly those
\* bounds; the built-in bounds are used only when none are passed.
C6_CallerBoundsHonoured ==
  (iso.pc = "out" /\ iso.in.bounds # NoBounds)
    => iso.out.fitBounds = iso.in.bounds

\* the parameter block the fit returned for an order: the batmen vector
\* holds the order-2 block first
FittedBlock(out, order) ==
  IF out.func = "batman" \/ order = 2
  THEN SubSeq(out.fitted, 1, 6)
  ELSE SubSeq(out.fitted, 7, 12)

\* the mask a block gives by the rule of the claim, with the radius rule
\* applied when useRadius holds
MaskByRule(m, b, h, sigma, radius, useRadius) ==
  LET c == b[1]
      s == b[4]
      d == b[6]
      lower == IF useRadius THEN c - radius.val ELSE (c - d) - s * sigma
      upper == IF useRadius THEN c + radius.val ELSE (c + d) + s * sigma
  IN  /\ DOMAIN m = 0..(h - 1)
      /\ \A x \in 0..(h - 1) :
           m[x] = (IF lower < x * Scale /\ x * Scale < upper THEN 0 ELSE 1)

NearCenter(b, order, idx) ==
  /\ b[1] >= trace_polynomial(order)[idx] - 3 * Scale
  /\ b[1] <= trace_polynomial(order)[idx] + 3 * Scale
  /\ b[6] > 0

MasksByRule(useRadius) ==
  /\ NearCenter(FittedBlock(iso.out, 1), 1, iso.in.idx)
  /\ MaskByRule(iso.out.ord1, FittedBlock(iso.out, 1), iso.in.h,
                iso.in.sigma, iso.in.radius, useRadius)
  /\ iso.out.func = "batmen" =>
       /\ NearCenter(FittedBlock(iso.out, 2), 2, iso.in.idx)
       /\ MaskByRule(iso.out.ord2, FittedBlock(iso.out, 2), iso.in.h,
                     iso.in.sigma, iso.in.radius, useRadius)

\* C9 as stated: the radius rule applies whenever a radius is supplied.
C9_RadiusWheneverSupplied ==
  IsoDone => MasksByRule(iso.in.radius # NoRadius)

\* C9: each fitted order's mask is 0 exactly at the rows strictly between
\* lower and upper; center -/+ radius when an int radius is supplied, and
\* (c - d) - s*sigma, (c + d) + s*sigma otherwise (no radius, or a radius
\* that is not an int); the order-1 mask comes from the block fitted near
\* trace center 1 and the order-2 mask from the block fitted near center 2.
C9_MaskFromFit ==
  IsoDone =>
    MasksByRule(iso.in.radius.type = "int")

\* a dual-order column fitted with an int radius whose lower limit falls
\* exactly on a row: that row is excluded, the next one is signal, and the
\* order-2 mask has signal rows of its own
C9_Witness ==
  /\ IsoDone
  /\ iso.out.func = "batmen"
  /\ iso.in.radius.type = "int"
  /\ \E x \in 0..(iso.in.h - 2) :
       /\ x * Scale = FittedBlock(iso.out, 1)[1] - iso.in.radius.val
       /\ iso.out.ord1[x] = 1
       /\ iso.out.ord1[x + 1] = 0
  /\ ~AllOnes(iso.out.ord2)
  /\ iso.out.ord1 # iso.out.ord2

(***************************************************************************)
(* wavelength_bins                                                         *)
(***************************************************************************)
\* wavelengths are integers in units of 1/WScale micron
WScale == 10

\* the sentinels 0.1 and 10 of the edge cases
SentinelLow == WScale \div 10

SentinelHigh == 10 * WScale

\* a[i] of a numpy array (0-based): a negative index counts from the end,
\* an index outside [-len, len) raises IndexError
NpIndex(a, i) ==
  IF i >= 0
  THEN IF i < Len(a) THEN [err |-> FALSE, v |-> a[i + 1]]
       ELSE [err |-> TRUE, v |-> 0]
  ELSE IF -i <= Len(a) THEN [err |-> FALSE, v |-> a[Len(a) + i + 1]]
       ELSE [err |-> TRUE, v |-> 0]

\* try: w0 = throughput[0][n-1] except IndexError: w0 = 0.1
W0(t, n) == IF NpIndex(t, n - 1).err THEN SentinelLow ELSE NpIndex(t, n - 1).v

\* try: w1 = throughput[0][n+1] except IndexError: w1 = 10
W1(t, n) == IF NpIndex(t, n + 1).err THEN SentinelHigh ELSE NpIndex(t, n + 1).v

\* np.where(np.logical_and(wave_map >= dw0, wave_map < dw1)) with
\* dw0 = mean([w0, w]) and dw1 = mean([w1, w]); both sides doubled
Signal(t, n, wave_map) ==
  {p \in DOMAIN wave_map :
     /\ 2 * wave_map[p] >= W0(t, n) + t[n + 1]
     /\ 2 * wave_map[p] < W1(t, n) + t[n + 1]}

\* the bins of one order: one pixel set per throughput sample
OrderBins(t, wave_map) ==
  [k \in 1..Len(t) |-> Signal(t, k - 1, wave_map)]

\* filters: the tables of the orders whose file exists, in order
RECURSIVE LoadFilters(_, _, _)
LoadFilters(ord, present, tables) ==
  IF ord > 3 THEN <<>>
  ELSE (IF ord \in present THEN <<tables[ord]>> ELSE <<>>)
         \o LoadFilters(ord + 1, present, tables)

\* the save branch: zip(filters, wavecal) fills signal_pixels[order]
ComputeBins(present, tables, wavecal) ==
  LET filters == LoadFilters(1, present, tables)
  IN  [order \in 1..3 |->
         IF order <= Len(filters)
         THEN OrderBins(filters[order], wavecal[order])
         ELSE <<>>]

\* bounds of the inputs of the indexer
MaxSamples == 3

SampleWaves == {6, 10, 28}

PixWaves == {5, 19}

\* pixel coordinates of the wavelength-calibration map
Pixels == {1, 2}

RECURSIVE Increasing(_)
Increasing(t) ==
  Len(t) <= 1 \/ (t[1] < t[2] /\ Increasing(Tail(t)))

WaveSeqs ==
  UNION {{t \in [1..n -> SampleWaves] : Increasing(t)} : n \in 1..MaxSamples}

WbInputs ==
  [present : SUBSET {1, 2, 3},
   tables : [1..3 -> WaveSeqs],
   wavecal : [1..3 -> [Pixels -> PixWaves]]]

NoBins == <<>>

WbInit ==
  /\ wb \in [pc : {"in"}, in : WbInputs, binfile : {NoBins}, out : {NoBins},
             passes : {0}]
  /\ iso = Idle
  /\ frame = Idle
  /\ file = Idle
  /\ stack = <<>>
  /\ pool = Idle
  /\ ret = Idle
  /\ prev = Idle
  /\ hist = Idle

\* wavelength_bins(save=True)
WbSave ==
  /\ wb.pc \in {"in", "out"}
  /\ LET bins == ComputeBins(wb.in.present, wb.in.tables, wb.in.wavecal)
     IN  wb' = [wb EXCEPT !.pc = "out", !.binfile = bins, !.out = bins,
                          !.passes = 1]
  /\ UNCHANGED <<iso, frame, file, stack, pool, ret, prev, hist>>

\* wavelength_bins(save=False): np.load, or the recursive call on
\* FileNotFoundError
WbLoad ==
  /\ wb.pc \in {"in", "out"}
  /\ IF wb.binfile # NoBins
     THEN wb' = [wb EXCEPT !.pc = "out", !.out = wb.binfile, !.passes = 0]
     ELSE LET bins == ComputeBins(wb.in.present, wb.in.tables, wb.in.wavecal)
          IN  wb' = [wb EXCEPT !.pc = "out", !.binfile = bins, !.out = bins,
                               !.passes = 1]
  /\ UNCHANGED <<iso, frame, file, stack, pool, ret, prev, hist>>

WbNext == WbSave \/ WbLoad

SpecBins == WbInit /\ [][WbNext]_vars

(***************************************************************************)
(* Properties of wavelength_bins                                           *)
(***************************************************************************)
\* C7: if the throughput file of order k is absent when the index is
\* computed, the entry of order k in the returned index is an empty list.
C7_MissingOrderEmpty ==
  (wb.pc = "out" /\ wb.passes = 1)
    => \A k \in 1..3 : k \notin wb.in.present => wb.out[k] = <<>>

\* C8: the bin of sample n is [dw0, dw1) with dw0 the midpoint to the
\* previous sample (0.1 before the first) and dw1 the midpoint to the next
\* one (10 after the last), so that every pixel between the outer edges lies
\* in exactly one bin.
C8_BinEdges ==
  (wb.pc = "out" /\ wb.passes = 1 /\ wb.in.present = {1, 2, 3})
    => \A k \in 1..3 :
         LET t == wb.in.tables[k]
             wm == wb.in.wavecal[k]
             prv(n) == IF n = 1 THEN SentinelLow ELSE t[n - 1]
             nxt(n) == IF n = Len(t) THEN SentinelHigh ELSE t[n + 1]
         IN  /\ Len(wb.out[k]) = Len(t)
             /\ \A n \in 1..Len(t) :
                  wb.out[k][n] =
                    {p \in Pixels : /\ 2 * wm[p] >= prv(n) + t[n]
                                    /\ 2 * wm[p] < nxt(n) + t[n]}
             /\ \A p \in Pixels :
                  (2 * wm[p] >= SentinelLow + t[1]
                     /\ 2 * wm[p] < t[Len(t)] + SentinelHigh)
                    => Cardinality({n \in 1..Len(t) : p \in wb.out[k][n]}) = 1

(***************************************************************************)
(* order_masks                                                             *)
(***************************************************************************)
\* the columns pool.map is handed, in the order of range(2048)
ColSeq == <<0, 1050, 1900>>

Cols == {ColSeq[k] : k \in 1..Len(ColSeq)}

\* n_jobs=4 of the signature, used by the recursive call
DefaultJobs == 4

DefaultSubarray == "SUBSTRIP256"

\* the keyword defaults of isolate_signal
DefaultKw ==
  [filt |-> "CLEAR", sigma |-> 3, radius |-> NoRadius, bounds |-> NoBounds]

NoFile == [exists |-> FALSE, data |-> <<>>]

\* func = partial(isolate_signal, frame=frame, **kwargs), applied to idx
Func(idx, frm, kw) ==
  isolate_signal(idx, frm, kw.bounds, kw.sigma, kw.radius, kw.filt)

\* the curve_fit call of column idx raises
FitFailed(idx, frm, kw) ==
  LET res == Func(idx, frm, kw)
  IN  curve_fit(res.func, frm.prof[idx], res.fitBounds).raised

\* pool = ThreadPool(n_jobs): every column queued, none running
NewPool(n_jobs, kw) ==
  [pc |-> "map", n_jobs |-> n_jobs, kw |-> kw, pending |-> ColSeq,
   running |-> {}, done |-> <<>>]

\* pool.map: the results in the order of the inputs, whatever the order in
\* which the workers finished
PoolMapUnordered(done) == [k \in 1..Len(ColSeq) |-> done[k].res]
PoolMap(done) ==
  [k \in 1..Len(ColSeq) |->
     (CHOOSE d \in {done[j] : j \in 1..Len(done)} : d.idx = ColSeq[k]).res]

\* pool.map re-raises the exception of a failed task
PoolRaises(done) == \E j \in 1..Len(done) : done[j].res.raised

\* order = np.zeros_like(frame); for n, (ord1, ord2) in enumerate(masks):
\* order[:, n] = ord
Assemble(masks, h, which) ==
  [r \in 0..(h - 1) |->
     [c \in Cols |->
        IF \E k \in 1..Len(masks) : ColSeq[k] = c
        THEN LET k == CHOOSE k \in 1..Len(masks) : ColSeq[k] = c
             IN  IF which = 1 THEN masks[k].ord1[r] ELSE masks[k].ord2[r]
        ELSE 0]]

\* np.save(file, np.array([order1, order2]))
NpSaveFirstTwice(order1, order2) == [exists |-> TRUE, data |-> <<order1, order1>>]
NpSave(order1, order2) == [exists |-> TRUE, data |-> <<order1, order2>>]

\* order1, order2 = np.load(file)
NpLoad(f) == [order1 |-> f.data[1], order2 |-> f.data[2]]

\* order[:96]
First96(a) ==
  LET rows == {r \in DOMAIN a : r < 96} IN [r \in rows |-> a[r]]

\* if subarray == 'SUBSTRIP96': order1 = order1[:96]; order2 = order2[:96]
Trim(m, subarray) ==
  IF subarray = "SUBSTRIP96"
  THEN [order1 |-> First96(m.order1), order2 |-> First96(m.order2)]
  ELSE m

Masks(m) == [kind |-> "masks", order1 |-> m.order1, order2 |-> m.order2]

RetNone == [kind |-> "None", order1 |-> <<>>, order2 |-> <<>>]

RetRaise == [kind |-> "raise", order1 |-> <<>>, order2 |-> <<>>]

NoRet == [kind |-> "none yet", order1 |-> <<>>, order2 |-> <<>>]

\* bounds of the calls made on order_masks
MaxJobs == 2

Subarrays == {"SUBSTRIP256", "SUBSTRIP96"}

Kwargs ==
  {DefaultKw,
   [DefaultKw EXCEPT !.filt = "F277W"],
   [DefaultKw EXCEPT !.radius = IntRadius(2)]}

\* frames: every column fits at the middle of its bounds, but at most one
FrameProfiles == {"bad", "baddual"}

ProfMaps ==
  {p \in [Cols -> FrameProfiles \cup {"mid"}] :
     Cardinality({c \in Cols : p[c] # "mid"}) <= 1}

Frames == [h : Heights, prof : ProfMaps]

NoCall == [save |-> FALSE, subarray |-> DefaultSubarray, kw |-> DefaultKw]

\* what is recorded of a top-level call while it runs
NewHist(args, f) ==
  [done |-> FALSE, args |-> args, fileBefore |-> f, passes |-> 0,
   writes |-> 0, failed |-> FALSE, reordered |-> FALSE]

Init ==
  /\ frame \in Frames
  /\ file = NoFile
  /\ stack = <<>>
  /\ pool = Idle
  /\ ret = NoRet
  /\ prev = [save |-> FALSE, subarray |-> DefaultSubarray, ret |-> NoRet]
  /\ hist = NewHist(NoCall, NoFile)
  /\ iso = Idle
  /\ wb = Idle

\* what a new top-level call records of the one before it
Begin(args) ==
  /\ prev' = [save |-> hist.args.save, subarray |-> hist.args.subarray,
              ret |-> ret]
  /\ ret' = NoRet

\* order_masks(frame, subarray, n_jobs, save=True, **kw) up to pool.map
CallSave(subarray, n_jobs, kw) ==
  /\ stack = <<>>
  /\ LET args == [save |-> TRUE, subarray |-> subarray, kw |-> kw]
     IN  /\ Begin(args)
         /\ stack' = <<args>>
         /\ pool' = NewPool(n_jobs, kw)
         /\ hist' = [NewHist(args, file) EXCEPT !.passes = 1]
  /\ UNCHANGED <<frame, file, iso, wb>>

\* order_masks(..., save=False) with the file present: np.load, trim, return
CallLoad(subarray, n_jobs, kw) ==
  /\ stack = <<>>
  /\ file.exists
  /\ LET args == [save |-> FALSE, subarray |-> subarray, kw |-> kw]
     IN  /\ prev' = [save |-> hist.args.save, subarray |-> hist.args.subarray,
                     ret |-> ret]
         /\ ret' = Masks(Trim(NpLoad(file), subarray))
         /\ hist' = [NewHist(args, file) EXCEPT !.done = TRUE]
  /\ UNCHANGED <<frame, file, stack, pool, iso, wb>>

\* order_masks(..., save=False) without the file: FileNotFoundError, then
\* order_masks(frame, save=True, plot=plot) up to pool.map
CallMiss(subarray, n_jobs, kw) ==
  /\ stack = <<>>
  /\ ~file.exists
  /\ LET args == [save |-> FALSE, subarray |-> subarray, kw |-> kw]
         inner == [save |-> TRUE, subarray |-> DefaultSubarray,
                   kw |-> DefaultKw]
     IN  /\ Begin(args)
         /\ stack' = <<args, inner>>
         /\ pool' = NewPool(DefaultJobs, inner.kw)
         /\ hist' = [NewHist(args, file) EXCEPT !.passes = 1]
  /\ UNCHANGED <<frame, file, iso, wb>>

\* a free worker thread takes the next column
WorkerStart ==
  /\ pool.pc = "map"
  /\ pool.pending # <<>>
  /\ Cardinality(pool.running) < pool.n_jobs
  /\ pool' = [pool EXCEPT !.pending = Tail(pool.pending),
                          !.running = pool.running \cup {Head(pool.pending)}]
  /\ UNCHANGED <<frame, file, stack, ret, prev, hist, iso, wb>>

\* a worker thread finishes isolate_signal on its column
WorkerFinish(c) ==
  /\ pool.pc = "map"
  /\ c \in pool.running
  /\ pool' = [pool EXCEPT
                !.running = pool.running \ {c},
                !.done = Append(pool.done,
                                [idx |-> c, res |-> Func(c, frame, pool.kw)])]
  /\ hist' = [hist EXCEPT
                !.failed = hist.failed \/ FitFailed(c, frame, pool.kw),
                !.reordered = hist.reordered
                                \/ \E d \in pool.running \ {c} : d < c]
  /\ UNCHANGED <<frame, file, stack, ret, prev, iso, wb>>

MapDone ==
  /\ pool.pc = "map"
  /\ pool.pending = <<>>
  /\ pool.running = {}

\* pool.map raises: the exception leaves every order_masks frame
MapRaise ==
  /\ MapDone
  /\ PoolRaises(pool.done)
  /\ stack' = <<>>
  /\ pool' = Idle
  /\ ret' = RetRaise
  /\ hist' = [hist EXCEPT !.done = TRUE]
  /\ UNCHANGED <<frame, file, prev, iso, wb>>

\* pool.map returns: assemble, np.save, trim and return; the caller of the
\* recursive call binds the pair and executes a bare return
MapReturn ==
  /\ MapDone
  /\ ~PoolRaises(pool.done)
  /\ LET masks  == PoolMap(pool.done)
         order1 == Assemble(masks, frame.h, 1)
         order2 == Assemble(masks, frame.h, 2)
         top    == stack[Len(stack)]
         result == Trim([order1 |-> order1, order2 |-> order2], top.subarray)
     IN  /\ file' = NpSave(order1, order2)
         /\ ret' = IF Len(stack) = 1 THEN Masks(result) ELSE RetNone
  /\ stack' = <<>>
  /\ pool' = Idle
  /\ hist' = [hist EXCEPT !.done = TRUE, !.writes = hist.writes + 1]
  /\ UNCHANGED <<frame, prev, iso, wb>>

Next ==
  \/ \E subarray \in Subarrays, n_jobs \in 1..MaxJobs, kw \in Kwargs :
       \/ CallSave(subarray, n_jobs, kw)
       \/ CallLoad(subarray, n_jobs, kw)
       \/ CallMiss(subarray, n_jobs, kw)
  \/ WorkerStart
  \/ \E c \in Cols : WorkerFinish(c)
  \/ MapRaise
  \/ MapReturn

Spec == Init /\ [][Next]_vars

(***************************************************************************)
(* Properties of order_masks                                               *)
(***************************************************************************)
\* the rows a returned mask has for a frame of height h
RowsOf(h, subarray) ==
  IF subarray = "SUBSTRIP96" /\ h > 96 THEN 0..95 ELSE 0..(h - 1)

\* a[r][c] is the value isolate_signal gives row r of column c, for every
\* row of rows and every column
ColumnwiseFrom(a, rows, frm, kw, which) ==
  /\ DOMAIN a = rows
  /\ \A c \in Cols :
       LET res == Func(c, frm, kw)
           m == IF which = 1 THEN res.ord1 ELSE res.ord2
       IN  \A r \in rows : DOMAIN a[r] = Cols /\ a[r][c] = m[r]

Finished == stack = <<>> /\ hist.done

\* C1: a call with save false while no cache artifact exists runs one pass
\* of the column fits, writes the cache once and returns the mask pair a
\* call with save true and the same arguments returns.
C1_CacheMissReturnsMasks ==
  (Finished /\ ~hist.args.save /\ ~hist.fileBefore.exists /\ ~hist.failed)
    => /\ hist.passes = 1
       /\ hist.writes = 1
       /\ ret.kind = "masks"
       /\ ColumnwiseFrom(ret.order1, RowsOf(frame.h, hist.args.subarray),
                         frame, hist.args.kw, 1)
       /\ ColumnwiseFrom(ret.order2, RowsOf(frame.h, hist.args.subarray),
                         frame, hist.args.kw, 2)

\* C2: every call with filt='F277W' that returns masks returns an order-2
\* mask that is 1 at every row of every column.
C2_F277WOrder2Excluded ==
  (Finished /\ hist.args.kw.filt = "F277W" /\ ret.kind = "masks")
    => \A r \in DOMAIN ret.order2 : \A c \in Cols : ret.order2[r][c] = 1

\* C3: whatever n_jobs and the order in which the workers finish, column n
\* of each mask a recomputing call returns is the result of isolate_signal
\* for column index n.
C3_WorkerCountIndependent ==
  (Finished /\ hist.args.save /\ ret.kind = "masks")
    => /\ ColumnwiseFrom(ret.order1, RowsOf(frame.h, hist.args.subarray),
                         frame, hist.args.kw, 1)
       /\ ColumnwiseFrom(ret.order2, RowsOf(frame.h, hist.args.subarray),
                         frame, hist.args.kw, 2)

\* a recomputing call returned masks after a later column finished while an
\* earlier one was still running
C3_Witness ==
  /\ Finished
  /\ hist.args.save
  /\ ret.kind = "masks"
  /\ hist.reordered
  /\ \E r \in DOMAIN ret.order1 : ret.order1[r][0] # ret.order1[r][1900]

\* C4: a call with save true followed by a call with save false on the same
\* frame and subarray returns, in the second call, the arrays of the first.
C4_CacheRoundTrip ==
  (Finished /\ ~hist.args.save /\ prev.save /\ prev.ret.kind = "masks"
     /\ prev.subarray = hist.args.subarray)
    => ret = prev.ret

\* a SUBSTRIP96 load of a 256-row frame right after a SUBSTRIP96 build whose
\* two masks differ
C4_Witness ==
  /\ Finished
  /\ ~hist.args.save
  /\ prev.save
  /\ prev.ret.kind = "masks"
  /\ prev.subarray = "SUBSTRIP96"
  /\ hist.args.subarray = "SUBSTRIP96"
  /\ frame.h = 256
  /\ ret.kind = "masks"
  /\ DOMAIN ret.order1 = 0..95
  /\ ret.order1 # ret.order2

\* C10: if the fit of a column fails during a recomputing call, the call
\* raises (no mask pair is returned) and the cache artifact is as it was
\* before the call.
C10_FitFailureAborts ==
  (Finished /\ hist.failed) => (ret.kind = "raise" /\ file = hist.fileBefore)

\* a build failed on a column after another column was fitted, with a cache
\* artifact already in place
C10_Witness ==
  /\ Finished
  /\ hist.failed
  /\ hist.fileBefore.exists
  /\ \E c \in Cols : ~FitFailed(c, frame, hist.args.kw)

====
